---- MODULE Spec2Model ----
(***************************************************************************)
(* mdns-reflector: the packet-relay engine of src/main.go.                 *)
(*                                                                         *)
(* The state is the Reflector's discovery-window map (recentQueries), the  *)
(* wall clock, and the record of the last packet handed to handlePacket    *)
(* together with the calls of forward made for it so far (calls) and what  *)
(* became of each (sent), both reset when handlePacket is entered.  hop    *)
(* tells whether the last packet was itself the bytes of an earlier        *)
(* forward.                                                                *)
(*                                                                         *)
(* phase is where the process stands (constructed, listening, terminated   *)
(* read loop, failed Start, crashed), ifaceIndex the index table Start     *)
(* fills, start what the operating system answered to Start, rx the last   *)
(* result of ReadFrom in the read loop.  loops counts the goroutines that  *)
(* run listen, and task is where the goroutine stands inside handlePacket: *)
(* the next statement (pc), the packet in hand, the destinations still to  *)
(* serve, the values read from the map, and whether the mutex is held      *)
(* (mu).  handlePacket is followed statement by statement, so the clock    *)
(* can move between any two of its statements.                             *)
(*                                                                         *)
(* Time is counted in whole seconds.  Names, addresses and group names     *)
(* are the strings the code compares.                                      *)
(***************************************************************************)
EXTENDS Integers, Sequences, FiniteSets, TLC

VARIABLES recentQueries, now, pkt, calls, hop,
          phase, ifaceIndex, start, rx, sent, loops, task

vars == <<recentQueries, now, pkt, calls, hop, phase, ifaceIndex, start, rx, sent,
          loops, task>>

(***************************************************************************)
(* Bounds of the model and program constants.                              *)
(***************************************************************************)
MaxTime == 61

(* The calls of handlePacket a behaviour makes at most. *)
MaxPackets == 3

WindowSecs == 60

QUBit == 32768

ClassINET == 1

(* The clock advances by one of these steps: exactly the window, and one  *)
(* second more.                                                            *)
TickSteps == {WindowSecs, WindowSecs + 1}

(***************************************************************************)
(* strings.Contains and strings.HasSuffix, on the strings themselves.      *)
(***************************************************************************)
Contains(s, substr) ==
    \/ Len(substr) = 0
    \/ \E i \in 1..(Len(s) - Len(substr) + 1) :
           SubSeq(s, i, i + Len(substr) - 1) = substr

HasSuffix(s, suffix) ==
    /\ Len(s) >= Len(suffix)
    /\ SubSeq(s, Len(s) - Len(suffix) + 1, Len(s)) = suffix

(***************************************************************************)
(* Configuration: the topology table and the rules.  The first three       *)
(* interfaces and the first rule are those of TestHandlePacket; the        *)
(* others add a second "users" interface, a rule from "users" into its own *)
(* group, two rules that select the same interface, a rule that lists one  *)
(* group twice, and a rule with every filter set.                          *)
(***************************************************************************)
Interfaces ==
    << [Name |-> "vlan.10", Group |-> "users"],
       [Name |-> "vlan.11", Group |-> "users"],
       [Name |-> "vlan.19", Group |-> "gl_iot"],
       [Name |-> "vlan.20", Group |-> "gl_tv"] >>

Rules ==
    << [From |-> "users", To |-> <<"gl_iot", "gl_tv">>, Types |-> <<"query">>,
        AllowedIPs |-> <<>>, AllowedServices |-> <<"_airplay._tcp">>],
       [From |-> "users", To |-> <<"users", "gl_iot">>, Types |-> <<>>,
        AllowedIPs |-> <<>>, AllowedServices |-> <<>>],
       [From |-> "gl_iot", To |-> <<"users", "gl_tv">>, Types |-> <<"response">>,
        AllowedIPs |-> <<"192.168.19.10", "192.168.19.11">>,
        AllowedServices |-> <<>>],
       [From |-> "gl_tv", To |-> <<"gl_iot", "gl_iot">>,
        Types |-> <<"query", "response">>,
        AllowedIPs |-> <<>>, AllowedServices |-> <<"_ipp._tcp", "_airplay._tcp">>],
       [From |-> "gl_iot", To |-> <<"gl_tv">>, Types |-> <<"query">>,
        AllowedIPs |-> <<"192.168.19.10">>,
        AllowedServices |-> <<"_airplay._tcp">>] >>

IfaceNames == { Interfaces[i].Name : i \in DOMAIN Interfaces }

(* NewReflector: ifaceMap[name] is the group of the interface, "" (the Go  *)
(* zero value of a missing key) for a name that is not configured.         *)
ifaceMap(name) ==
    IF name \in IfaceNames
    THEN LET i == CHOOSE j \in DOMAIN Interfaces :
                     /\ Interfaces[j].Name = name
                     /\ \A k \in DOMAIN Interfaces :
                           Interfaces[k].Name = name => k <= j
         IN Interfaces[i].Group
    ELSE ""

(* NewReflector: groupMap[group] lists the group's interfaces in           *)
(* configuration order; a missing group gives the empty list.              *)
groupMap(group) ==
    LET InGroup(ic) == ic.Group = group
        members == SelectSeq(Interfaces, InGroup)
    IN [i \in 1..Len(members) |-> members[i].Name]

(***************************************************************************)
(* DNS messages.  A message is its response flag, its questions (name and  *)
(* 16-bit class) and the owner names of its answer records.                *)
(***************************************************************************)
Question(name, qclass) == [Name |-> name, Qclass |-> qclass]

Query(questions) == [Response |-> FALSE, Question |-> questions, Answer |-> <<>>]

(* The names that occur in the messages below; a name's position in this  *)
(* table stands for its label encoding on the wire.                        *)
NameTable ==
    << "_airplay._tcp.local.", "_ssh._tcp.local.", "myhost.local.",
       "my_host.local.", "10.19.168.192.in-addr.arpa.", "1.0.0.0.ip6.arpa.",
       "example.com.", "_airplay._tcp.local" >>

NameId(name) == CHOOSE i \in DOMAIN NameTable : NameTable[i] = name

(* dns.IsFqdn: the name ends with a dot.                                   *)
IsFqdn(name) == HasSuffix(name, ".")

(***************************************************************************)
(* dns.Msg.Pack and dns.Msg.Unpack.  The wire form is a sequence of        *)
(* numbers: the flags word (QR is its top bit), the question and answer    *)
(* counts, then per question the name and the two octets of the class, and *)
(* per answer the owner name.  Pack fails (ErrFqdn) on a name that is not  *)
(* fully qualified; Unpack fails on bytes that are not a whole message.    *)
(***************************************************************************)
NilData == <<>>

RECURSIVE PackQuestions(_)
PackQuestions(qs) ==
    IF qs = <<>> THEN <<>>
    ELSE << NameId(Head(qs).Name), Head(qs).Qclass \div 256, Head(qs).Qclass % 256 >>
         \o PackQuestions(Tail(qs))

PackErr(msg) ==
    \/ \E i \in DOMAIN msg.Question : ~IsFqdn(msg.Question[i].Name)
    \/ \E i \in DOMAIN msg.Answer : ~IsFqdn(msg.Answer[i])

Pack(msg) ==
    << (IF msg.Response THEN 32768 ELSE 0), Len(msg.Question), Len(msg.Answer) >>
    \o PackQuestions(msg.Question)
    \o [i \in 1..Len(msg.Answer) |-> NameId(msg.Answer[i])]

UnpackErr(data) ==
    \/ Len(data) < 3
    \/ Len(data) # 3 + 3 * data[2] + data[3]

Unpack(data) ==
    [Response |-> data[1] >= 32768,
     Question |-> [i \in 1..data[2] |->
                     [Name |-> NameTable[data[3 * i + 1]],
                      Qclass |-> data[3 * i + 2] * 256 + data[3 * i + 3]]],
     Answer |-> [i \in 1..data[3] |-> NameTable[data[3 + 3 * data[2] + i]]]]

(***************************************************************************)
(* handlePacket, lines 148-164: clearing the QU bit of every question and  *)
(* re-serializing when a question was changed.                             *)
(***************************************************************************)
HasQU(qclass) == (qclass \div QUBit) % 2 = 1

modified(msg) == \E i \in DOMAIN msg.Question : HasQU(msg.Question[i].Qclass)

(* a variant of ClearQU that stops after the first question it changes *)
ClearQU_FirstOnly(msg) ==
    [msg EXCEPT !.Question =
        [i \in DOMAIN msg.Question |->
            IF /\ msg.Question[i].Qclass >= QUBit
               /\ \A j \in 1..(i - 1) : msg.Question[j].Qclass < QUBit
            THEN [msg.Question[i] EXCEPT !.Qclass = @ - QUBit]
            ELSE msg.Question[i]]]

ClearQU(msg) ==
    [msg EXCEPT !.Question =
        [i \in DOMAIN msg.Question |->
            IF HasQU(msg.Question[i].Qclass)
            THEN [msg.Question[i] EXCEPT !.Qclass = @ - QUBit]
            ELSE msg.Question[i]]]

(* a variant of ForwardData that rewrites a response as it does a query *)
ForwardData_AlsoResponses(data, msg) ==
    IF modified(msg) /\ ~PackErr(ClearQU(msg)) THEN Pack(ClearQU(msg)) ELSE data

(* a variant of ForwardData that takes Pack's result whatever its error *)
ForwardData_NilOnError(data, msg) ==
    IF ~msg.Response /\ modified(msg)
    THEN (IF PackErr(ClearQU(msg)) THEN NilData ELSE Pack(ClearQU(msg)))
    ELSE data

(* a variant of ForwardData that forwards only what it has re-serialized *)
ForwardData_RepackedOnly(data, msg) ==
    IF msg.Response THEN data
    ELSE IF modified(msg) /\ ~PackErr(ClearQU(msg)) THEN Pack(ClearQU(msg))
    ELSE NilData

(* The bytes that are forwarded for a packet that arrived as `data`.       *)
ForwardData(data, msg) ==
    IF ~msg.Response /\ modified(msg) /\ ~PackErr(ClearQU(msg))
    THEN Pack(ClearQU(msg))
    ELSE data

(***************************************************************************)
(* handlePacket, lines 166-236: the gates of one rule.                     *)
(***************************************************************************)
SeqContains(seq, x) == \E i \in DOMAIN seq : seq[i] = x

(* a variant of FromGate in which a source without a group meets every rule *)
FromGate_UngroupedMatches(rule, srcGroup) == rule.From = srcGroup \/ srcGroup = ""

(* line 167 *)
FromGate(rule, srcGroup) == rule.From = srcGroup

(* line 172 *)
isResponse(msg) == msg.Response \/ Len(msg.Answer) > 0

typeName(msg) == IF isResponse(msg) THEN "response" ELSE "query"

(* a variant of TypeGate that never skips the rule *)
TypeGate_NoSkip(rule, msg) == TRUE

(* lines 174-189 *)
TypeGate(rule, msg) ==
    Len(rule.Types) > 0 => SeqContains(rule.Types, typeName(msg))

(* a variant of IPGate that takes a list of one entry for no list *)
IPGate_OffByOne(rule, srcIP) ==
    Len(rule.AllowedIPs) > 1 => \E i \in DOMAIN rule.AllowedIPs : rule.AllowedIPs[i] = srcIP

(* lines 192-203; srcIP is the printed address, srcIP.String() *)
IPGate(rule, srcIP) ==
    Len(rule.AllowedIPs) > 0 => SeqContains(rule.AllowedIPs, srcIP)

(* a variant of isHostname that does not look for the underscore *)
isHostname_AnyLocal(name) == HasSuffix(name, ".local.")

(* lines 222-223 *)
isHostname(name) == HasSuffix(name, ".local.") /\ ~Contains(name, "_")

isReverse(name) == HasSuffix(name, ".in-addr.arpa.") \/ HasSuffix(name, ".ip6.arpa.")

(* lines 211-227, one question *)
allowed(rule, q) ==
    \/ \E i \in DOMAIN rule.AllowedServices : Contains(q.Name, rule.AllowedServices[i])
    \/ isHostname(q.Name)
    \/ isReverse(q.Name)

(* a variant of ServiceGate that wants every question to be allowed *)
ServiceGate_EveryQuestion(rule, msg) ==
    (~msg.Response /\ Len(rule.AllowedServices) > 0)
        => /\ msg.Question # <<>>
           /\ \A i \in DOMAIN msg.Question :
                 \/ \E j \in DOMAIN rule.AllowedServices :
                        Contains(msg.Question[i].Name, rule.AllowedServices[j])
                 \/ HasSuffix(msg.Question[i].Name, ".local.")
                       /\ ~Contains(msg.Question[i].Name, "_")
                 \/ HasSuffix(msg.Question[i].Name, ".in-addr.arpa.")
                 \/ HasSuffix(msg.Question[i].Name, ".ip6.arpa.")

(* a variant of ServiceGate that looks at the questions of a response too *)
ServiceGate_AlsoResponses(rule, msg) ==
    Len(rule.AllowedServices) > 0
        => \E i \in DOMAIN msg.Question :
              \/ \E j \in DOMAIN rule.AllowedServices :
                     Contains(msg.Question[i].Name, rule.AllowedServices[j])
              \/ HasSuffix(msg.Question[i].Name, ".local.")
                    /\ ~Contains(msg.Question[i].Name, "_")
              \/ HasSuffix(msg.Question[i].Name, ".in-addr.arpa.")
              \/ HasSuffix(msg.Question[i].Name, ".ip6.arpa.")

(* lines 206-236 *)
ServiceGate(rule, msg) ==
    (~msg.Response /\ Len(rule.AllowedServices) > 0)
        => \E i \in DOMAIN msg.Question : allowed(rule, msg.Question[i])

(***************************************************************************)
(* handlePacket, lines 239-267: the destinations of one rule, in the order *)
(* of the two nested loops.                                                *)
(***************************************************************************)
RECURSIVE Targets(_)
Targets(to) ==
    IF to = <<>> THEN <<>>
    ELSE [i \in 1..Len(groupMap(Head(to))) |->
             [destGroup |-> Head(to), ifaceName |-> groupMap(Head(to))[i]]]
         \o Targets(Tail(to))

(***************************************************************************)
(* handlePacket, lines 166-243: the destinations one rule leaves after its *)
(* four gates and the skip of the source interface, in the order of the    *)
(* loops.                                                                  *)
(***************************************************************************)

(* a variant of RuleCandidates that does not skip the source interface *)
RuleCandidates_SourceToo(r, srcIface, msg, srcIP) ==
    IF /\ FromGate(Rules[r], ifaceMap(srcIface))
       /\ TypeGate(Rules[r], msg)
       /\ IPGate(Rules[r], srcIP)
       /\ ServiceGate(Rules[r], msg)
    THEN LET chosen == Targets(Rules[r].To)
         IN [i \in 1..Len(chosen) |->
                [ifaceName |-> chosen[i].ifaceName, rule |-> r,
                 destGroup |-> chosen[i].destGroup]]
    ELSE <<>>

RuleCandidates(r, srcIface, msg, srcIP) ==
    IF /\ FromGate(Rules[r], ifaceMap(srcIface))
       /\ TypeGate(Rules[r], msg)
       /\ IPGate(Rules[r], srcIP)
       /\ ServiceGate(Rules[r], msg)
    THEN LET NotSource(target) == target.ifaceName # srcIface
             chosen == SelectSeq(Targets(Rules[r].To), NotSource)
         IN [i \in 1..Len(chosen) |->
                [ifaceName |-> chosen[i].ifaceName, rule |-> r,
                 destGroup |-> chosen[i].destGroup]]
    ELSE <<>>

(* a variant of Candidates that stops at the first rule that has           *)
(* destinations                                                            *)
RECURSIVE Candidates_FirstMatch(_, _, _, _)
Candidates_FirstMatch(r, srcIface, msg, srcIP) ==
    IF r > Len(Rules) THEN <<>>
    ELSE IF RuleCandidates(r, srcIface, msg, srcIP) # <<>>
    THEN RuleCandidates(r, srcIface, msg, srcIP)
    ELSE Candidates_FirstMatch(r + 1, srcIface, msg, srcIP)

(* lines 166-268: every rule is visited, in order, from rule r on *)
RECURSIVE Candidates(_, _, _, _)
Candidates(r, srcIface, msg, srcIP) ==
    IF r > Len(Rules) THEN <<>>
    ELSE RuleCandidates(r, srcIface, msg, srcIP)
         \o Candidates(r + 1, srcIface, msg, srcIP)

(* lines 239-254: the statement that comes next when destination k is      *)
(* reached: the return of handlePacket, the window check of a response     *)
(* into "users", or the forward.                                           *)
NextDest(k, cands, isResp) ==
    IF k > Len(cands) THEN "read"
    ELSE IF isResp /\ cands[k].destGroup = "users" THEN "win.lock"
    ELSE "forward"

(* a variant of Stale that never expires an entry *)
Stale_NoExpiry(ok, lastQuery, t) == ~ok

(* a variant of Stale that closes the window at exactly sixty seconds *)
Stale_Exclusive(ok, lastQuery, t) == ~ok \/ t - lastQuery >= WindowSecs

(* line 251: !ok || time.Since(lastQuery) > 60*time.Second, the clock      *)
(* being read when the test is made, at time t                             *)
Stale(ok, lastQuery, t) == ~ok \/ t - lastQuery > WindowSecs


(* a variant of recordQuery that drops the entries that have expired *)
recordQuery_Evicting(rq, ifaceName, t) ==
    [x \in { y \in DOMAIN rq : t - rq[y] <= WindowSecs } \cup {ifaceName} |->
        IF x = ifaceName THEN t ELSE rq[x]]

(* a variant of recordQuery that keeps an entry it finds *)
recordQuery_KeepFirst(rq, ifaceName, t) ==
    IF ifaceName \in DOMAIN rq THEN rq
    ELSE [x \in DOMAIN rq \cup {ifaceName} |-> IF x = ifaceName THEN t ELSE rq[x]]

(* lines 143-146 *)
recordQuery(rq, ifaceName, t) ==
    [x \in DOMAIN rq \cup {ifaceName} |-> IF x = ifaceName THEN t ELSE rq[x]]

(***************************************************************************)
(* The packets handed to handlePacket.                                     *)
(***************************************************************************)
QU(class) == class + QUBit

qEmpty == Query(<<>>)

qAirplayQU == Query(<<Question("_airplay._tcp.local.", QU(ClassINET))>>)

qAirplay == Query(<<Question("_airplay._tcp.local.", ClassINET)>>)

qSsh == Query(<<Question("_ssh._tcp.local.", ClassINET)>>)

qHost == Query(<<Question("myhost.local.", ClassINET)>>)

qSshHostQU ==
    Query(<<Question("_ssh._tcp.local.", ClassINET),
            Question("myhost.local.", QU(ClassINET))>>)

qTwoQU ==
    Query(<<Question("_airplay._tcp.local.", QU(ClassINET)),
            Question("_ssh._tcp.local.", QU(255))>>)

qReverse4 == Query(<<Question("10.19.168.192.in-addr.arpa.", ClassINET)>>)

qReverse6QU == Query(<<Question("1.0.0.0.ip6.arpa.", QU(ClassINET))>>)

qUnderscoreHost == Query(<<Question("my_host.local.", ClassINET)>>)

qOtherQU == Query(<<Question("example.com.", QU(ClassINET))>>)

(* a question name without the final dot: Pack refuses it *)
qNotFqdnQU == Query(<<Question("_airplay._tcp.local", QU(ClassINET))>>)

(* a query that carries known answers: flag unset, answer section filled *)
qKnownAnswer ==
    [Response |-> FALSE,
     Question |-> <<Question("_airplay._tcp.local.", ClassINET)>>,
     Answer |-> <<"_airplay._tcp.local.">>]

rEmpty == [Response |-> TRUE, Question |-> <<>>, Answer |-> <<>>]

rAirplay == [Response |-> TRUE, Question |-> <<>>, Answer |-> <<"_airplay._tcp.local.">>]

rSshWithQuestion ==
    [Response |-> TRUE,
     Question |-> <<Question("_ssh._tcp.local.", ClassINET)>>,
     Answer |-> <<"_ssh._tcp.local.">>]

(* a response that repeats a question with the top bit of its class set *)
rSshQU ==
    [Response |-> TRUE,
     Question |-> <<Question("_ssh._tcp.local.", QU(ClassINET))>>,
     Answer |-> <<"_ssh._tcp.local.">>]

Msgs ==
    { qEmpty, qAirplayQU, qAirplay, qSsh, qHost, qSshHostQU, qTwoQU, qReverse4,
      qReverse6QU, qUnderscoreHost, qOtherQU, qNotFqdnQU, qKnownAnswer,
      rEmpty, rAirplay, rSshWithQuestion }

(* dns.Fqdn on every name of a message: the message as it is on the wire, *)
(* where a name has no final-dot spelling of its own.                      *)
Fqdn(name) == IF IsFqdn(name) THEN name ELSE name \o "."

FqdnMsg(msg) ==
    [msg EXCEPT !.Question = [i \in DOMAIN msg.Question |->
                                 [msg.Question[i] EXCEPT !.Name = Fqdn(@)]],
                !.Answer = [i \in DOMAIN msg.Answer |-> Fqdn(msg.Answer[i])]]

(* The bytes a caller passes with a message: its packed form; for a        *)
(* message that cannot be packed, nil (the tests' data, _ := msg.Pack())   *)
(* or the datagram that carries the same names.                            *)
DataOf(msg) ==
    IF PackErr(msg) THEN {NilData, Pack(FqdnMsg(msg))} ELSE {Pack(msg)}

(* Source interface, message and source address of the packets handled:    *)
(* every message from both "users" interfaces, queries and responses from  *)
(* a listed and from an unlisted address of "gl_iot", from "gl_tv", and    *)
(* from an interface that is not configured.                               *)
Packets ==
    ({"vlan.10", "vlan.11"} \X Msgs \X {"192.168.10.50"})
    \cup ({"vlan.19"}
          \X {qAirplay, qAirplayQU, qSsh, qKnownAnswer, rEmpty, rAirplay}
          \X {"192.168.19.10", "192.168.19.99"})
    \cup ({"vlan.20"}
          \X {qAirplayQU, qSsh, qHost, qKnownAnswer, rEmpty, rSshWithQuestion, rSshQU}
          \X {"192.168.20.10"})
    \cup ({"unknown_iface"} \X {qEmpty, qAirplayQU, rAirplay} \X {"1.1.1.1"})

(* Which stages of handlePacket take a message for a query: the window    *)
(* recording (line 143), the QU mutation (lines 143-164), the type gate    *)
(* (lines 172-179), the service gate (line 206) and the discovery-window   *)
(* gate (line 246).                                                        *)
Stages(msg) ==
    [record |-> ~msg.Response,
     mutation |-> ~msg.Response,
     typeGate |-> typeName(msg) = "query",
     serviceGate |-> ~msg.Response,
     windowGate |-> ~isResponse(msg)]

(* Before the first packet.  `at` is the time handlePacket was entered,    *)
(* `prev` the source interface's entry in recentQueries at that time (-1:  *)
(* none), `stages` what each stage took the message for, `tests` the       *)
(* tests of line 251 made so far, one for each turn of the destination     *)
(* loops that made one, with the time of each, `n` the number of           *)
(* the call.                                                               *)
NoPkt == [srcIface |-> "", data |-> NilData, msg |-> Query(<<>>), srcIP |-> "",
          at |-> 0, prev |-> -1, stages |-> Stages(Query(<<>>)), handled |-> FALSE,
          tests |-> <<>>, n |-> 0]

(***************************************************************************)
(* The state machine.                                                      *)
(***************************************************************************)
(* The interfaces and what forward meets when it sends on them: `gone`    *)
(* are the names InterfaceByName does not find, `werr` those WriteTo       *)
(* fails on.                                                               *)
NoFaults == [gone |-> {}, werr |-> {}]

ForwardFaults ==
    { NoFaults,
      [gone |-> {"vlan.19"}, werr |-> {}],
      [gone |-> {}, werr |-> {"vlan.11", "vlan.19"}] }

(* A host that has none of the configured interfaces, and one that has     *)
(* vlan.20 only: where handlePacket is called on a Reflector that was      *)
(* never started.                                                          *)
Unplugged == [gone |-> IfaceNames, werr |-> {}]

DirectFaults ==
    { Unplugged,
      [gone |-> IfaceNames \ {"vlan.20"}, werr |-> {}] }

(* forward, lines 270-282: what becomes of one call.  r.conn is nil until  *)
(* line 106 of Start, and WriteTo through the nil pointer panics.          *)
forward(ifaceName, data, f, conn) ==
    [ifaceName |-> ifaceName,
     data |-> data,
     outcome |-> IF ifaceName \in f.gone THEN "noiface"
                 ELSE IF ~conn THEN "panic"
                 ELSE IF ifaceName \in f.werr THEN "writeerr"
                 ELSE "written"]


(* The operating system's interface index of a name, and the name of an    *)
(* index: index 1 is the loopback interface.                               *)
InterfaceIndex(name) ==
    1 + (CHOOSE j \in DOMAIN Interfaces : Interfaces[j].Name = name)

InterfaceName(idx) == Interfaces[idx - 1].Name

(* An interface of the host that the configuration does not name. *)
OtherIndex == Len(Interfaces) + 2

(* What Start can meet: bind (ListenPacket, line 77), ctl                  *)
(* (SetControlMessage, line 83), the names InterfaceByName resolves (line  *)
(* 93) and the resolved interfaces JoinGroup succeeds on (line 100).       *)
StartOutcome(bind, ctl, resolved, joined) ==
    [called |-> TRUE, bind |-> bind, ctl |-> ctl,
     resolved |-> resolved, joined |-> joined]

StartOutcomes ==
    { StartOutcome(FALSE, FALSE, {}, {}),
      StartOutcome(TRUE, FALSE, {}, {}),
      StartOutcome(TRUE, TRUE, IfaceNames, IfaceNames),
      StartOutcome(TRUE, TRUE, IfaceNames \ {"vlan.11"},
                   IfaceNames \ {"vlan.11", "vlan.19"}),
      StartOutcome(TRUE, TRUE, {}, {}) }

NotStarted ==
    [called |-> FALSE, bind |-> FALSE, ctl |-> FALSE, resolved |-> {}, joined |-> {}]

(* a variant of StartErr in which one bad interface fails the start *)
StartErr_AnyInterface(o) ==
    ~o.bind \/ ~o.ctl \/ o.joined # IfaceNames

(* Start, lines 77-90: the errors Start returns. *)
StartErr(o) == ~o.bind \/ ~o.ctl

(* Start, lines 92-104: the index table holds every resolved interface,    *)
(* line 98 coming before the join.                                         *)
IndexTable(o) ==
    [idx \in { InterfaceIndex(n) : n \in o.resolved } |-> InterfaceName(idx)]

(* One result of ReadFrom, line 114: an error, or a datagram with or       *)
(* without control data.                                                   *)
Datagram(cm, ifIndex, data, srcIP) ==
    [err |-> FALSE, cm |-> cm, ifIndex |-> ifIndex, data |-> data, srcIP |-> srcIP]

ReadError == [err |-> TRUE, cm |-> FALSE, ifIndex |-> 0, data |-> NilData, srcIP |-> ""]

(* bytes that end before the records the header announces *)
Truncated(data) == SubSeq(data, 1, Len(data) - 1)

Datagrams ==
    { ReadError,
      Datagram(FALSE, 0, Pack(qAirplayQU), "192.168.10.50"),
      Datagram(TRUE, OtherIndex, Pack(qAirplayQU), "10.0.0.7"),
      Datagram(TRUE, InterfaceIndex("vlan.10"), Truncated(Pack(qAirplayQU)),
               "192.168.10.50"),
      Datagram(TRUE, InterfaceIndex("vlan.10"), Pack(qAirplayQU), "192.168.10.50"),
      Datagram(TRUE, InterfaceIndex("vlan.10"), Pack(qOtherQU), "192.168.10.50"),
      Datagram(TRUE, InterfaceIndex("vlan.11"), Pack(qSsh), "192.168.11.50"),
      Datagram(TRUE, InterfaceIndex("vlan.19"), Pack(rAirplay), "192.168.19.10"),
      Datagram(TRUE, InterfaceIndex("vlan.20"), Pack(qAirplay), "192.168.20.10") }

(* The goroutine outside handlePacket, at line 114 or before any call. *)
Idle == [pc |-> "read", mu |-> FALSE, srcIface |-> "", fwd |-> NilData,
         isResp |-> FALSE, cands |-> <<>>, k |-> 1, ok |-> FALSE, lastQuery |-> 0,
         faults |-> NoFaults]

NoRx == [d |-> ReadError, read |-> FALSE, kind |-> "none", prev |-> "none", seq |-> 0]

Init ==
    /\ recentQueries = <<>>
    /\ now = 0
    /\ pkt = NoPkt
    /\ calls = <<>>
    /\ hop = 0
    /\ phase = "constructed"
    /\ ifaceIndex = <<>>
    /\ start = NotStarted
    /\ rx = NoRx
    /\ sent = <<>>
    /\ loops = 0
    /\ task = Idle

(* line 106: r.conn = p, once Start has come through *)
conn == phase \in {"listening", "terminated"}

(***************************************************************************)
(* handlePacket, lines 139-269, statement by statement.  The entry takes   *)
(* the arguments and works out what depends on them alone: the message     *)
(* with its QU bits cleared, the bytes to forward (lines 152-163) and the  *)
(* destinations the gates leave (lines 166-243).  The statements that      *)
(* touch the mutex, the map, the clock or the socket are steps of their    *)
(* own, and time may pass between any two of them.  task.pc names the      *)
(* statement the goroutine executes next; f is what forward will meet.     *)
(* pkt.n counts the calls, of which a behaviour has MaxPackets at most.    *)
(***************************************************************************)
handlePacket(srcIface, data, msg, srcIP, f) ==
    LET m == IF ~msg.Response THEN ClearQU(msg) ELSE msg
        cands == Candidates(1, srcIface, m, srcIP)
    IN /\ pkt.n < MaxPackets
       /\ task' = [pc |-> IF ~msg.Response THEN "record.lock"
                          ELSE NextDest(1, cands, isResponse(m)),
                   mu |-> task.mu,
                   srcIface |-> srcIface,
                   fwd |-> ForwardData(data, msg),
                   isResp |-> isResponse(m),
                   cands |-> cands,
                   k |-> 1,
                   ok |-> FALSE,
                   lastQuery |-> 0,
                   faults |-> f]
       /\ pkt' = [srcIface |-> srcIface, data |-> data, msg |-> msg,
                  srcIP |-> srcIP, at |-> now,
                  prev |-> IF srcIface \in DOMAIN recentQueries
                           THEN recentQueries[srcIface] ELSE -1,
                  stages |-> Stages(msg), handled |-> TRUE, tests |-> <<>>,
                  n |-> pkt.n + 1]
       /\ calls' = <<>>
       /\ sent' = <<>>
       /\ UNCHANGED <<recentQueries, now>>

(* handlePacket has returned, or was never called *)
Returned == task.pc = "read"

(* A call of handlePacket on a Reflector that was constructed and never    *)
(* started, with any interface name, as a unit test makes it.              *)
HandlePacket ==
    \E p \in Packets : \E data \in DataOf(p[2]) : \E f \in DirectFaults :
        /\ phase = "constructed"
        /\ Returned
        /\ handlePacket(p[1], data, p[2], p[3], f)
        /\ hop' = 0
        /\ UNCHANGED <<phase, ifaceIndex, start, rx, loops>>

ReflectorIP == "192.168.19.1"

(* The bytes of an earlier forward call, handed to handlePacket again as   *)
(* the next reflector on that segment would receive them, decoded as       *)
(* listen decodes them, lines 129-135.                                     *)
Relay ==
    \E i \in DOMAIN calls :
        /\ phase = "constructed"
        /\ Returned
        /\ hop = 0
        /\ pkt.handled
        /\ calls[i].data # pkt.data
        /\ ~UnpackErr(calls[i].data)
        /\ handlePacket(calls[i].ifaceName, calls[i].data, Unpack(calls[i].data),
                        ReflectorIP, Unplugged)
        /\ hop' = 1
        /\ UNCHANGED <<phase, ifaceIndex, start, rx, loops>>

(* line 144: r.mu.Lock() *)
RecordLock ==
    /\ task.pc = "record.lock"
    /\ ~task.mu
    /\ task' = [task EXCEPT !.pc = "record.write", !.mu = TRUE]
    /\ UNCHANGED <<recentQueries, now, pkt, calls, hop, phase, ifaceIndex, start, rx,
                   sent, loops>>

(* line 145: r.recentQueries[srcIface] = time.Now() *)
RecordWrite ==
    /\ task.pc = "record.write"
    /\ recentQueries' = recordQuery(recentQueries, task.srcIface, now)
    /\ task' = [task EXCEPT !.pc = "record.unlock"]
    /\ UNCHANGED <<now, pkt, calls, hop, phase, ifaceIndex, start, rx, sent, loops>>

(* line 146: r.mu.Unlock(); lines 152-239 up to the first destination *)
RecordUnlock ==
    /\ task.pc = "record.unlock"
    /\ task' = [task EXCEPT !.pc = NextDest(1, task.cands, task.isResp),
                            !.mu = FALSE]
    /\ UNCHANGED <<recentQueries, now, pkt, calls, hop, phase, ifaceIndex, start, rx,
                   sent, loops>>

(* line 247: r.mu.Lock() *)
WindowLock ==
    /\ task.pc = "win.lock"
    /\ ~task.mu
    /\ task' = [task EXCEPT !.pc = "win.read", !.mu = TRUE]
    /\ UNCHANGED <<recentQueries, now, pkt, calls, hop, phase, ifaceIndex, start, rx,
                   sent, loops>>

(* a variant of WindowRead that looks for the newest entry of any          *)
(* interface of the destination's group                                    *)
WindowRead_PerGroup ==
    LET members == {n \in DOMAIN recentQueries :
                        ifaceMap(n) = task.cands[task.k].destGroup}
    IN /\ task.pc = "win.read"
       /\ task' = [task EXCEPT
                      !.pc = "win.unlock",
                      !.ok = members # {},
                      !.lastQuery =
                          IF members # {}
                          THEN CHOOSE t \in {recentQueries[n] : n \in members} :
                                   \A n \in members : recentQueries[n] <= t
                          ELSE 0]
       /\ UNCHANGED <<recentQueries, now, pkt, calls, hop, phase, ifaceIndex, start, rx,
                      sent, loops>>

(* line 248: lastQuery, ok := r.recentQueries[destIfaceName], the two      *)
(* values being kept in locals; a missing key gives the zero time          *)
WindowRead ==
    /\ task.pc = "win.read"
    /\ task' = [task EXCEPT
                   !.pc = "win.unlock",
                   !.ok = task.cands[task.k].ifaceName \in DOMAIN recentQueries,
                   !.lastQuery =
                       IF task.cands[task.k].ifaceName \in DOMAIN recentQueries
                       THEN recentQueries[task.cands[task.k].ifaceName]
                       ELSE 0]
    /\ UNCHANGED <<recentQueries, now, pkt, calls, hop, phase, ifaceIndex, start, rx,
                   sent, loops>>

(* the test of line 251 for destination k, the k-th turn of the loops of   *)
(* lines 239-240, and when it is made                                      *)
TestOf ==
    [k |-> task.k, ifaceName |-> task.cands[task.k].ifaceName,
     rule |-> task.cands[task.k].rule, at |-> now]

(* a variant of WindowUnlock that leaves the mutex to be released later *)
WindowUnlock_KeepLocked ==
    /\ task.pc = "win.unlock"
    /\ task' = IF ~Stale(task.ok, task.lastQuery, now)
               THEN [task EXCEPT !.pc = "forward"]
               ELSE [task EXCEPT !.pc = NextDest(task.k + 1, task.cands, task.isResp),
                                 !.k = task.k + 1, !.mu = FALSE]
    /\ pkt' = [pkt EXCEPT !.tests = Append(@, TestOf)]
    /\ UNCHANGED <<recentQueries, now, calls, hop, phase, ifaceIndex, start, rx,
                   sent, loops>>

(* line 249: r.mu.Unlock(); lines 251-253: the age of the entry is taken   *)
(* now, after the unlock, and the destination is passed over when it has   *)
(* no entry or the entry is older than the window                          *)
WindowUnlock ==
    /\ task.pc = "win.unlock"
    /\ task' = IF ~Stale(task.ok, task.lastQuery, now)
               THEN [task EXCEPT !.pc = "forward", !.mu = FALSE]
               ELSE [task EXCEPT !.pc = NextDest(task.k + 1, task.cands, task.isResp),
                                 !.k = task.k + 1, !.mu = FALSE]
    /\ pkt' = [pkt EXCEPT !.tests = Append(@, TestOf)]
    /\ UNCHANGED <<recentQueries, now, calls, hop, phase, ifaceIndex, start, rx,
                   sent, loops>>

(* the call of line 265 for destination k carrying the bytes `data` *)
CallOf(data) ==
    [ifaceName |-> task.cands[task.k].ifaceName,
     data |-> data,
     rule |-> task.cands[task.k].rule,
     destGroup |-> task.cands[task.k].destGroup]

(* what the iteration of the read loop is remembered as, once a forward    *)
(* has had the outcome o                                                   *)
AfterForward(o) ==
    IF rx.read /\ o.outcome # "written" THEN [rx EXCEPT !.kind = "sendfailed"] ELSE rx

(* a variant of Forward that hands the first destination the bytes as      *)
(* they were received                                                      *)
Forward_OriginalFirst ==
    LET data == IF task.k = 1 THEN pkt.data ELSE task.fwd
        o == forward(task.cands[task.k].ifaceName, data, task.faults, conn)
    IN /\ task.pc = "forward"
       /\ calls' = Append(calls, CallOf(data))
       /\ sent' = Append(sent, o)
       /\ rx' = AfterForward(o)
       /\ IF o.outcome = "panic"
          THEN /\ phase' = "crashed"
               /\ task' = [task EXCEPT !.pc = "crashed"]
          ELSE /\ phase' = phase
               /\ task' = [task EXCEPT
                              !.pc = NextDest(task.k + 1, task.cands, task.isResp),
                              !.k = task.k + 1]
       /\ UNCHANGED <<recentQueries, now, pkt, hop, ifaceIndex, start, loops>>

(* a variant of Forward in which a failed send ends the packet *)
Forward_StopAtFailure ==
    LET o == forward(task.cands[task.k].ifaceName, task.fwd, task.faults, conn)
    IN /\ task.pc = "forward"
       /\ calls' = Append(calls, CallOf(task.fwd))
       /\ sent' = Append(sent, o)
       /\ rx' = AfterForward(o)
       /\ IF o.outcome = "panic"
          THEN /\ phase' = "crashed"
               /\ task' = [task EXCEPT !.pc = "crashed"]
          ELSE /\ phase' = phase
               /\ task' = IF o.outcome = "written"
                          THEN [task EXCEPT
                                   !.pc = NextDest(task.k + 1, task.cands, task.isResp),
                                   !.k = task.k + 1]
                          ELSE [task EXCEPT !.pc = "read", !.k = Len(task.cands) + 1]
       /\ UNCHANGED <<recentQueries, now, pkt, hop, ifaceIndex, start, loops>>

(* line 265: r.forward(destIfaceName, data), lines 270-282, and on to the  *)
(* next destination.  A failed lookup or a failed write returns to the     *)
(* loops; the write through a nil r.conn panics, and nothing recovers.     *)
Forward ==
    LET o == forward(task.cands[task.k].ifaceName, task.fwd, task.faults, conn)
    IN /\ task.pc = "forward"
       /\ calls' = Append(calls, CallOf(task.fwd))
       /\ sent' = Append(sent, o)
       /\ rx' = AfterForward(o)
       /\ IF o.outcome = "panic"
          THEN /\ phase' = "crashed"
               /\ task' = [task EXCEPT !.pc = "crashed"]
          ELSE /\ phase' = phase
               /\ task' = [task EXCEPT
                              !.pc = NextDest(task.k + 1, task.cands, task.isResp),
                              !.k = task.k + 1]
       /\ UNCHANGED <<recentQueries, now, pkt, hop, ifaceIndex, start, loops>>

(* Time passes. *)
Tick ==
    \E d \in TickSteps :
        /\ now + d <= MaxTime
        /\ now' = now + d
        /\ UNCHANGED <<recentQueries, pkt, calls, hop, phase, ifaceIndex, start, rx, sent,
                       loops, task>>

Next ==
    \/ HandlePacket
    \/ Relay
    \/ RecordLock
    \/ RecordWrite
    \/ RecordUnlock
    \/ WindowLock
    \/ WindowRead
    \/ WindowUnlock
    \/ Forward
    \/ Tick

Spec == Init /\ [][Next]_vars

(***************************************************************************)
(* The process: Start, then the read loop of listen, each iteration        *)
(* running handlePacket through the same statements.                       *)
(***************************************************************************)

(* Start, lines 76-109. *)
Start ==
    \E o \in StartOutcomes :
        /\ phase = "constructed"
        /\ start' = o
        /\ IF StartErr(o)
           THEN /\ phase' = "failed"
                /\ UNCHANGED <<ifaceIndex, loops>>
           ELSE /\ phase' = "listening"
                /\ ifaceIndex' = IndexTable(o)
                /\ loops' = loops + 1
        /\ UNCHANGED <<recentQueries, now, pkt, calls, hop, rx, sent, task>>

(* line 124: the name of an index, "" for a missing key *)
srcIfaceOf(idx) == IF idx \in DOMAIN ifaceIndex THEN ifaceIndex[idx] ELSE ""

(* a variant of Discard that does not look the interface up *)
Discard_AnyIndex(d) ==
    \/ ~d.cm
    \/ UnpackErr(d.data)

(* listen, lines 120-133: the datagrams the loop passes over. *)
Discard(d) ==
    \/ ~d.cm
    \/ srcIfaceOf(d.ifIndex) = ""
    \/ UnpackErr(d.data)

(* a variant of AfterReadError in which the loop reads on *)
AfterReadError_ReadOn == "listening"

(* listen, lines 115-118: the loop returns. *)
AfterReadError == "terminated"

(* what became of the read, for the next iteration to remember *)
KindOf(d) ==
    IF d.err THEN "readerr"
    ELSE IF Discard(d) THEN "discard"
    ELSE "handled"

(* a variant of ReadReady in which the loop reads on while a packet is     *)
(* still being handled                                                     *)
ReadReady_Midway == TRUE

(* lines 113-136: the loop calls ReadFrom when the iteration before has    *)
(* come to its end, handlePacket being an ordinary call at line 135.       *)
ReadReady == Returned

(* listen, lines 114-135: ReadFrom, the return on a read error, the three  *)
(* discards, and the call of handlePacket.                                 *)
ReadFrom ==
    \E d \in Datagrams : \E f \in ForwardFaults :
        /\ phase = "listening"
        /\ ReadReady
        /\ IF d.err
           THEN /\ f = NoFaults
                /\ phase' = AfterReadError
                /\ loops' = loops - 1
                /\ UNCHANGED <<recentQueries, now, pkt, calls, sent, task>>
           ELSE IF Discard(d)
           THEN /\ f = NoFaults
                /\ UNCHANGED <<phase, loops, recentQueries, now, pkt, calls, sent, task>>
           ELSE /\ handlePacket(srcIfaceOf(d.ifIndex), d.data, Unpack(d.data),
                                d.srcIP, f)
                /\ UNCHANGED <<phase, loops>>
        /\ rx' = [d |-> d, read |-> TRUE, kind |-> KindOf(d), prev |-> rx.kind,
                  seq |-> 1 - rx.seq]
        /\ hop' = 0
        /\ UNCHANGED <<ifaceIndex, start>>

NextListen ==
    \/ Start
    \/ ReadFrom
    \/ RecordLock
    \/ RecordWrite
    \/ RecordUnlock
    \/ WindowLock
    \/ WindowRead
    \/ WindowUnlock
    \/ Forward
    \/ Tick

SpecListen == Init /\ [][NextListen]_vars


(* handlePacket has been called and has returned: every call of forward    *)
(* for the last packet has been made                                       *)
Done == pkt.handled /\ Returned

IsQuery == pkt.handled /\ ~pkt.msg.Response

QueryDone == Done /\ ~pkt.msg.Response

ResponseDone == Done /\ pkt.msg.Response

IsResponseMsg == pkt.handled /\ pkt.msg.Response

SrcGroup == ifaceMap(pkt.srcIface)

(* the calls made under rule r, and the number of calls to one interface *)
CallsUnder(r) == { i \in DOMAIN calls : calls[i].rule = r }

CallsTo(ifaceName) == { i \in DOMAIN calls : calls[i].ifaceName = ifaceName }

(* the interfaces of the groups a rule lists, other than the source *)
RuleDestinations(r) ==
    { n \in IfaceNames : n # pkt.srcIface /\ SeqContains(Rules[r].To, ifaceMap(n)) }

InList(list, x) == \E i \in DOMAIN list : list[i] = x

PlainHostname(name) == HasSuffix(name, ".local.") /\ ~Contains(name, "_")

ReverseLookup(name) ==
    HasSuffix(name, ".in-addr.arpa.") \/ HasSuffix(name, ".ip6.arpa.")

NamesService(r, name) ==
    \E i \in DOMAIN Rules[r].AllowedServices : Contains(name, Rules[r].AllowedServices[i])

(* the bytes decode to the last packet's questions with every QU bit       *)
(* cleared and nothing else changed                                        *)
DecodesCleared(data) ==
    /\ ~UnpackErr(data)
    /\ Len(Unpack(data).Question) = Len(pkt.msg.Question)
    /\ \A k \in DOMAIN pkt.msg.Question :
          /\ ~HasQU(Unpack(data).Question[k].Qclass)
          /\ Unpack(data).Question[k].Qclass = pkt.msg.Question[k].Qclass % QUBit
          /\ Unpack(data).Question[k].Name = pkt.msg.Question[k].Name

HasQUQuestion == \E k \in DOMAIN pkt.msg.Question : pkt.msg.Question[k].Qclass >= QUBit

(* the last packet, taken as a query, passes the four gates of rule r *)
PassesGates(r) ==
    /\ Rules[r].From = SrcGroup
    /\ (Len(Rules[r].Types) > 0 => InList(Rules[r].Types, "query"))
    /\ (Len(Rules[r].AllowedIPs) > 0 => InList(Rules[r].AllowedIPs, pkt.srcIP))
    /\ (Len(Rules[r].AllowedServices) > 0 =>
            \E k \in DOMAIN pkt.msg.Question :
                \/ NamesService(r, pkt.msg.Question[k].Name)
                \/ PlainHostname(pkt.msg.Question[k].Name)
                \/ ReverseLookup(pkt.msg.Question[k].Name))

(***************************************************************************)
(* C1: a response is forwarded to an interface of group "users" only if a  *)
(* query from that interface was recorded at most 60 seconds before the    *)
(* response was handled.                                                   *)
(***************************************************************************)
C1_ResponseOnlyIntoOpenWindow ==
    IsResponseMsg =>
        \A i \in DOMAIN calls :
            ifaceMap(calls[i].ifaceName) = "users" =>
                /\ calls[i].ifaceName \in DOMAIN recentQueries
                /\ pkt.at - recentQueries[calls[i].ifaceName] <= WindowSecs

(* a response relayed to a "users" interface exactly at the end of its     *)
(* window while the other "users" interface, which never sent a query,     *)
(* gets nothing                                                            *)
C1_Witness ==
    /\ ResponseDone
    /\ \E i \in DOMAIN calls :
          /\ calls[i].ifaceName = "vlan.10"
          /\ pkt.at - recentQueries["vlan.10"] = WindowSecs
    /\ "vlan.11" \notin DOMAIN recentQueries
    /\ CallsTo("vlan.11") = {}

(***************************************************************************)
(* C2: a packet is never forwarded to the interface it arrived on, also    *)
(* when that interface's own group is in a matching rule's `to` list.      *)
(***************************************************************************)
C2_NeverBackToSource ==
    \A i \in DOMAIN calls : calls[i].ifaceName # pkt.srcIface

(* a packet relayed into its own source group *)
C2_Witness ==
    /\ pkt.handled
    /\ \E i \in DOMAIN calls : calls[i].destGroup = SrcGroup

(***************************************************************************)
(* C3: for one packet each destination interface receives at most one      *)
(* forward.                                                                *)
(***************************************************************************)
C3_AtMostOneForwardPerInterface ==
    \A i, j \in DOMAIN calls :
        calls[i].ifaceName = calls[j].ifaceName => i = j

(***************************************************************************)
(* C4 (as stated): for every query with a QU bit set, the bytes of every   *)
(* forward decode to a message in which no question has the QU bit set,    *)
(* all other class bits unchanged.                                         *)
(***************************************************************************)
C4_Original ==
    (IsQuery /\ HasQUQuestion) =>
        \A i \in DOMAIN calls : DecodesCleared(calls[i].data)

(***************************************************************************)
(* C4 (amended): for every query with a QU bit set whose re-serialization  *)
(* succeeds, the bytes of every forward decode to a message in which no    *)
(* question has the QU bit set, all other class bits unchanged; when       *)
(* re-serialization fails the bytes received are forwarded as they are.    *)
(***************************************************************************)
C4_QUClearedWhenRepacked ==
    (IsQuery /\ HasQUQuestion) =>
        \A i \in DOMAIN calls :
            IF \A k \in DOMAIN pkt.msg.Question : IsFqdn(pkt.msg.Question[k].Name)
            THEN DecodesCleared(calls[i].data)
            ELSE calls[i].data = pkt.data

(* a forwarded query two of whose questions had the QU bit, one of them    *)
(* with other class bits set                                               *)
C4_Witness ==
    /\ QueryDone
    /\ Len(pkt.msg.Question) = 2
    /\ \A k \in DOMAIN pkt.msg.Question : pkt.msg.Question[k].Qclass >= QUBit
    /\ \E k \in DOMAIN pkt.msg.Question : pkt.msg.Question[k].Qclass % QUBit > ClassINET
    /\ calls # <<>>

(***************************************************************************)
(* C5: a query that passes a rule's source-group, type, IP and service     *)
(* gates is forwarded exactly once to every interface of every group in    *)
(* the rule's `to` list other than its source interface, with no           *)
(* discovery-window requirement.                                           *)
(***************************************************************************)
C5_QueryToEveryDestinationOnce ==
    QueryDone =>
        \A r \in DOMAIN Rules :
            PassesGates(r) =>
                \A n \in RuleDestinations(r) : Cardinality(CallsTo(n)) = 1

(***************************************************************************)
(* C6: under a rule with a service allow-list, a query none of whose       *)
(* question names contains a listed substring, is a plain hostname or is a *)
(* reverse-lookup name produces no forward under that rule.                *)
(***************************************************************************)
C6_UnlistedServiceBlocked ==
    IsQuery =>
        \A r \in DOMAIN Rules :
            ( /\ Len(Rules[r].AllowedServices) > 0
              /\ \A k \in DOMAIN pkt.msg.Question :
                    /\ ~NamesService(r, pkt.msg.Question[k].Name)
                    /\ ~PlainHostname(pkt.msg.Question[k].Name)
                    /\ ~ReverseLookup(pkt.msg.Question[k].Name) )
            => CallsUnder(r) = {}

(* a hostname with an underscore, from the source group of a               *)
(* service-filtered rule that its other gates admit: nothing under it,     *)
(* while another rule relays the packet                                    *)
C6_Witness ==
    /\ QueryDone
    /\ pkt.srcIface = "vlan.10"
    /\ Len(pkt.msg.Question) = 1
    /\ HasSuffix(pkt.msg.Question[1].Name, ".local.")
    /\ ~PlainHostname(pkt.msg.Question[1].Name)
    /\ ~NamesService(1, pkt.msg.Question[1].Name)
    /\ CallsUnder(1) = {}
    /\ calls # <<>>

(***************************************************************************)
(* C7: a query with at least one question that is a plain hostname or a    *)
(* reverse-lookup name passes the service gate of every service-filtered   *)
(* rule, whatever the list and the other questions: a rule whose other     *)
(* gates admit the packet relays it to each of its destinations.           *)
(***************************************************************************)
C7_HostnameAlwaysAdmitted ==
    ( /\ QueryDone
      /\ \E k \in DOMAIN pkt.msg.Question :
            \/ PlainHostname(pkt.msg.Question[k].Name)
            \/ ReverseLookup(pkt.msg.Question[k].Name) )
    => \A r \in DOMAIN Rules :
          ( /\ Len(Rules[r].AllowedServices) > 0
            /\ Rules[r].From = SrcGroup
            /\ TypeGate(Rules[r], pkt.msg)
            /\ IPGate(Rules[r], pkt.srcIP) )
          => \A n \in RuleDestinations(r) :
                (isResponse(pkt.msg) /\ ifaceMap(n) = "users")
                \/ \E i \in CallsUnder(r) : calls[i].ifaceName = n

(* a query relayed under a service-filtered rule whose first question      *)
(* names an unlisted service and whose second is a plain hostname          *)
C7_Witness ==
    /\ QueryDone
    /\ Len(pkt.msg.Question) = 2
    /\ ~PlainHostname(pkt.msg.Question[1].Name)
    /\ ~ReverseLookup(pkt.msg.Question[1].Name)
    /\ ~NamesService(1, pkt.msg.Question[1].Name)
    /\ PlainHostname(pkt.msg.Question[2].Name)
    /\ CallsUnder(1) # {}

(***************************************************************************)
(* C8: under a rule with an IP allow-list, a packet whose source address   *)
(* equals no listed entry produces no forward under that rule, query or    *)
(* response, whatever the discovery windows hold.                          *)
(***************************************************************************)
C8_UnlistedAddressBlocked ==
    pkt.handled =>
        \A r \in DOMAIN Rules :
            ( /\ Len(Rules[r].AllowedIPs) > 0
              /\ ~InList(Rules[r].AllowedIPs, pkt.srcIP) )
            => CallsUnder(r) = {}

(* a query from an unlisted address under the rule that filters queries by *)
(* address, while the windows of both "users" interfaces are open          *)
C8_Witness ==
    /\ QueryDone
    /\ pkt.srcIface = "vlan.19"
    /\ pkt.msg.Question # <<>>
    /\ NamesService(5, pkt.msg.Question[1].Name)
    /\ Len(pkt.msg.Answer) = 0
    /\ ~InList(Rules[5].AllowedIPs, pkt.srcIP)
    /\ {"vlan.10", "vlan.11"} \subseteq DOMAIN recentQueries
    /\ calls = <<>>

(***************************************************************************)
(* C9: under a rule with a `types` list, a message whose derived type is   *)
(* not in the list produces no forward under that rule.                    *)
(***************************************************************************)
C9_TypeMismatchBlocked ==
    pkt.handled =>
        \A r \in DOMAIN Rules :
            ( /\ Len(Rules[r].Types) > 0
              /\ ~InList(Rules[r].Types, typeName(pkt.msg)) )
            => CallsUnder(r) = {}

(* a response from "users" meets the query-only rule and is relayed by the *)
(* unrestricted rule only                                                  *)
C9_Witness ==
    /\ ResponseDone
    /\ Rules[1].From = SrcGroup
    /\ Rules[1].Types = <<"query">>
    /\ CallsUnder(1) = {}
    /\ CallsUnder(2) # {}

(***************************************************************************)
(* C10: a rule contributes forwards only for a packet whose source         *)
(* interface is in the rule's `from` group; a packet of an interface that  *)
(* is in no group produces no forward.                                     *)
(***************************************************************************)
C10_OnlyFromSourceGroup ==
    /\ \A i \in DOMAIN calls : Rules[calls[i].rule].From = SrcGroup
    /\ (pkt.handled /\ pkt.srcIface \notin IfaceNames) => calls = <<>>

(* a query with an allow-listed name from an interface that is not         *)
(* configured                                                              *)
C10_Witness ==
    /\ QueryDone
    /\ pkt.srcIface \notin IfaceNames
    /\ pkt.msg.Question # <<>>
    /\ calls = <<>>

(***************************************************************************)
(* C11: a message is a response if and only if its response flag is set;   *)
(* a message with the flag unset is treated as a query by the type gate    *)
(* and by the discovery-window gate, whatever its answer section holds.    *)
(***************************************************************************)
C11_FlagAloneClassifies ==
    /\ QueryDone =>
          \A r \in DOMAIN Rules :
              /\ PassesGates(r) =>
                    \A n \in RuleDestinations(r) :
                        \E i \in CallsUnder(r) : calls[i].ifaceName = n
              /\ (Len(Rules[r].Types) > 0 /\ ~InList(Rules[r].Types, "query"))
                    => CallsUnder(r) = {}
    /\ IsResponseMsg =>
          \A r \in DOMAIN Rules :
              (Len(Rules[r].Types) > 0 /\ ~InList(Rules[r].Types, "response"))
                  => CallsUnder(r) = {}

(***************************************************************************)
(* C12: every stage of handlePacket (window recording, QU mutation, type   *)
(* gate, service gate, discovery-window gate) takes one message for the    *)
(* same thing, a query or a response.                                      *)
(***************************************************************************)
C12_StagesAgree ==
    pkt.handled =>
        /\ pkt.stages.mutation = pkt.stages.record
        /\ pkt.stages.typeGate = pkt.stages.record
        /\ pkt.stages.serviceGate = pkt.stages.record
        /\ pkt.stages.windowGate = pkt.stages.record

(***************************************************************************)
(* C13: every query handled from an interface sets that interface's entry  *)
(* of recentQueries to the time the clock shows at line 145, also when it  *)
(* is forwarded nowhere, and over any earlier entry: once the write is     *)
(* made the entry is not older than the call.                              *)
(***************************************************************************)
C13_QueryAlwaysRecorded ==
    /\ [](( /\ IsQuery
            /\ task.pc \notin {"record.lock", "record.write"} )
          => /\ pkt.srcIface \in DOMAIN recentQueries
             /\ pkt.at <= recentQueries[pkt.srcIface]
             /\ recentQueries[pkt.srcIface] <= now)
    /\ [][ (task.pc = "record.write" /\ task'.pc # "record.write")
           => /\ pkt.srcIface \in DOMAIN recentQueries'
              /\ recentQueries'[pkt.srcIface] = now ]_vars

(* a query that no rule relayed, from an interface that had an older entry *)
C13_Witness ==
    /\ QueryDone
    /\ calls = <<>>
    /\ pkt.prev >= 0
    /\ pkt.prev < recentQueries[pkt.srcIface]

(***************************************************************************)
(* C14: the QU bits are cleared once per packet, before any rule is        *)
(* evaluated: all forwards of one packet carry the same bytes.             *)
(***************************************************************************)
C14_OneMutationPerPacket ==
    \A i, j \in DOMAIN calls : calls[i].data = calls[j].data

(* a rewritten query forwarded under two rules into two groups *)
C14_Witness ==
    /\ QueryDone
    /\ HasQUQuestion
    /\ \E i, j \in DOMAIN calls :
          /\ calls[i].rule # calls[j].rule
          /\ calls[i].destGroup # calls[j].destGroup
          /\ calls[i].data # pkt.data

(***************************************************************************)
(* C15: when a query has a QU bit to clear and re-serialization fails, the *)
(* packet is not dropped: the rules are evaluated and every admitted       *)
(* destination is forwarded the bytes that were received.                  *)
(***************************************************************************)
C15_PackFailureForwardsOriginal ==
    ( /\ IsQuery
      /\ HasQUQuestion
      /\ \E k \in DOMAIN pkt.msg.Question : ~IsFqdn(pkt.msg.Question[k].Name) )
    => /\ \A i \in DOMAIN calls : calls[i].data = pkt.data
       /\ Done =>
             \A r \in DOMAIN Rules :
                 ( /\ Rules[r].From = SrcGroup
                   /\ TypeGate(Rules[r], pkt.msg)
                   /\ IPGate(Rules[r], pkt.srcIP)
                   /\ ServiceGate(Rules[r], pkt.msg) )
                 => \A n \in RuleDestinations(r) :
                       (isResponse(pkt.msg) /\ ifaceMap(n) = "users")
                       \/ \E i \in CallsUnder(r) : calls[i].ifaceName = n

(* a query that cannot be re-serialized, received as real bytes with the   *)
(* QU bit set, and forwarded                                               *)
C15_Witness ==
    /\ QueryDone
    /\ HasQUQuestion
    /\ ~IsFqdn(pkt.msg.Question[1].Name)
    /\ pkt.data # NilData
    /\ Unpack(pkt.data).Question[1].Qclass >= QUBit
    /\ calls # <<>>

(***************************************************************************)
(* C16: clearing the QU bits is idempotent: a query whose QU bits are      *)
(* already cleared, such as the output of an earlier relay, is forwarded   *)
(* as the very bytes that were received.                                   *)
(***************************************************************************)
C16_ClearedQueryUnchanged ==
    /\ (hop = 1 /\ IsQuery) => ~HasQUQuestion
    /\ (IsQuery /\ ~HasQUQuestion) =>
          \A i \in DOMAIN calls : calls[i].data = pkt.data

(* the rewritten bytes of a query, relayed a second time *)
C16_Witness ==
    /\ hop = 1
    /\ QueryDone
    /\ pkt.msg.Question # <<>>
    /\ calls # <<>>

(* The indexes of the interfaces Start resolved. *)
ResolvedIndexes == { InterfaceIndex(n) : n \in start.resolved }

(***************************************************************************)
(* C17: a datagram with no control data, with an interface index that is   *)
(* not in the index table, or that fails decoding is discarded by the read *)
(* loop: no forward, no change of the discovery-window map, and the loop   *)
(* stays ready for the next datagram.                                      *)
(***************************************************************************)
C17_DiscardChangesNothing ==
    [][ ( /\ phase = "listening"
          /\ now' = now
          /\ ~rx'.d.err
          /\ \/ ~rx'.d.cm
             \/ rx'.d.ifIndex \notin DOMAIN ifaceIndex
             \/ UnpackErr(rx'.d.data) )
        => /\ UNCHANGED <<recentQueries, pkt, calls, sent>>
           /\ phase' = "listening" ]_vars

(* a datagram from an interface outside the table, read after a packet     *)
(* that was relayed                                                        *)
C17_Witness ==
    /\ phase = "listening"
    /\ rx.read
    /\ ~rx.d.err
    /\ rx.d.cm
    /\ rx.d.ifIndex \notin DOMAIN ifaceIndex
    /\ rx.kind = "discard"
    /\ pkt.handled
    /\ calls # <<>>
    /\ recentQueries # <<>>

(***************************************************************************)
(* C18: once ReadFrom has returned an error the read loop is over and      *)
(* nothing restarts it: no datagram is read or handled, no forward is      *)
(* made, and the discovery-window map never changes again.                 *)
(***************************************************************************)
C18_ReadErrorEndsLoop ==
    [][ (rx.read /\ rx.d.err)
        => UNCHANGED <<recentQueries, pkt, calls, sent, rx, phase>> ]_vars

(* the loop ended after it had relayed a query, and time went on *)
C18_Witness ==
    /\ phase = "terminated"
    /\ rx.read
    /\ rx.d.err
    /\ pkt.handled
    /\ calls # <<>>
    /\ recentQueries # <<>>
    /\ now > pkt.at

(***************************************************************************)
(* C19, as stated: when the bind succeeds, Start returns success and       *)
(* starts the read loop.                                                   *)
(***************************************************************************)
C19_Original ==
    (start.called /\ start.bind) => phase \in {"listening", "terminated"}

(***************************************************************************)
(* C19, amended: when the bind succeeds and control data can be enabled on *)
(* the socket, Start returns success and starts the read loop whatever     *)
(* subset of interfaces fails name resolution or the multicast join;       *)
(* datagrams arriving on the interfaces that did resolve are relayed, and  *)
(* an interface whose name did not resolve is never a source.              *)
(***************************************************************************)
C19_StartSurvivesBadInterfaces ==
    /\ (start.called /\ start.bind /\ start.ctl) =>
          /\ phase \in {"listening", "terminated"}
          /\ phase = "terminated" => (rx.read /\ rx.d.err)
          /\ DOMAIN ifaceIndex = ResolvedIndexes
    /\ ( /\ rx.read
         /\ ~rx.d.err
         /\ rx.d.cm
         /\ rx.d.ifIndex \in ResolvedIndexes
         /\ ~UnpackErr(rx.d.data) )
       => /\ pkt.handled
          /\ pkt.srcIface = InterfaceName(rx.d.ifIndex)
          /\ pkt.data = rx.d.data
          /\ Len(sent) = Len(calls)
          /\ \A i \in DOMAIN sent :
                sent[i] = forward(calls[i].ifaceName, calls[i].data, task.faults, TRUE)
    /\ pkt.handled => pkt.srcIface \in start.resolved

(* one name did not resolve, one join failed, and a datagram that came in  *)
(* on the interface whose join failed went out on another                  *)
C19_Witness ==
    /\ start.called
    /\ start.resolved # IfaceNames
    /\ start.joined # start.resolved
    /\ rx.read
    /\ ~rx.d.err
    /\ pkt.handled
    /\ pkt.data = rx.d.data
    /\ pkt.srcIface \notin start.joined
    /\ \E i \in DOMAIN sent : sent[i].outcome = "written"

(* the tests of line 251 made for the last packet under rule r for         *)
(* interface n, one for each turn of the loops that came to n              *)
TestsOf(r, n) ==
    { i \in DOMAIN pkt.tests : pkt.tests[i].rule = r /\ pkt.tests[i].ifaceName = n }

Tested(r, n) == TestsOf(r, n) # {}

(* the window of its interface was open when the test t was made: a query  *)
(* of the interface recorded at most 60 seconds before                     *)
OpenTest(t) ==
    /\ t.ifaceName \in DOMAIN recentQueries
    /\ t.at - recentQueries[t.ifaceName] <= WindowSecs

(* the window of interface n was open at one of the turns rule r came to   *)
(* it                                                                      *)
OpenAtTest(r, n) == \E i \in TestsOf(r, n) : OpenTest(pkt.tests[i])

(* the calls of forward the last packet is due, in the order of the loops: *)
(* one for each turn of the destination loops that the gates of a rule     *)
(* leave, a turn for a "users" destination of a response counting once the *)
(* test made at that very turn found the window open                       *)
AdmittedCalls ==
    LET m == IF ~pkt.msg.Response THEN ClearQU(pkt.msg) ELSE pkt.msg
        cs == Candidates(1, pkt.srcIface, m, pkt.srcIP)
        turns == [k \in 1..Len(cs) |-> [k |-> k, c |-> cs[k]]]
        Open(t) ==
            (isResponse(m) /\ t.c.destGroup = "users")
                => \E i \in DOMAIN pkt.tests :
                       pkt.tests[i].k = t.k /\ OpenTest(pkt.tests[i])
        chosen == SelectSeq(turns, Open)
    IN [i \in 1..Len(chosen) |->
           [ifaceName |-> chosen[i].c.ifaceName,
            data |-> ForwardData(pkt.data, pkt.msg),
            rule |-> chosen[i].c.rule,
            destGroup |-> chosen[i].c.destGroup]]

(***************************************************************************)
(* C20: a failure to forward to one destination (name not resolvable, or   *)
(* send error) is not retried and does not stop the packet: the calls of   *)
(* forward made for a packet are at every moment the first of the calls it *)
(* is due, one attempt for each admitted destination and no other, and     *)
(* all of them once handlePacket has returned, whatever became of the      *)
(* attempts before; each attempt on a healthy interface is written, and    *)
(* the read loop goes on to later packets.                                 *)
(***************************************************************************)
C20_ForwardFailuresIndependent ==
    /\ Len(calls) <= Len(AdmittedCalls)
    /\ \A i \in DOMAIN calls : calls[i] = AdmittedCalls[i]
    /\ Done => Len(calls) = Len(AdmittedCalls)
    /\ Len(sent) = Len(calls)
    /\ \A i \in DOMAIN calls :
          /\ sent[i].ifaceName = calls[i].ifaceName
          /\ sent[i].data = calls[i].data
          /\ sent[i].outcome =
                IF calls[i].ifaceName \in task.faults.gone THEN "noiface"
                ELSE IF calls[i].ifaceName \in task.faults.werr THEN "writeerr"
                ELSE "written"
    /\ (rx.read /\ ~rx.d.err) => phase = "listening"

(* a packet whose first forward failed and whose later forward went out,   *)
(* every call it was due made, handled right after a packet that had a     *)
(* failed forward too                                                      *)
C20_Witness ==
    /\ Done
    /\ Len(calls) = Len(AdmittedCalls)
    /\ rx.prev = "sendfailed"
    /\ rx.kind = "sendfailed"
    /\ \E i, j \in DOMAIN sent :
          /\ i < j
          /\ sent[i].outcome # "written"
          /\ sent[j].outcome = "written"
    /\ \E i \in DOMAIN sent : sent[i].outcome = "writeerr"

(* what handlePacket forwards for the last packet when the clock stands    *)
(* still from its first statement to its last                              *)
WholeHandling ==
    LET m == IF ~pkt.msg.Response THEN ClearQU(pkt.msg) ELSE pkt.msg
        cs == Candidates(1, pkt.srcIface, m, pkt.srcIP)
        Open(c) ==
            (isResponse(m) /\ c.destGroup = "users")
                => /\ c.ifaceName \in DOMAIN recentQueries
                   /\ ~Stale(TRUE, recentQueries[c.ifaceName], pkt.at)
        chosen == SelectSeq(cs, Open)
    IN [i \in 1..Len(chosen) |->
           [ifaceName |-> chosen[i].ifaceName,
            data |-> ForwardData(pkt.data, pkt.msg),
            rule |-> chosen[i].rule,
            destGroup |-> chosen[i].destGroup]]

(***************************************************************************)
(* C21: packets are handled one at a time by a single reader: there is at  *)
(* most one read loop, and the recording, the mutation, the rule           *)
(* evaluation and all forwards of a packet are complete before the next    *)
(* datagram is read.                                                       *)
(***************************************************************************)
C21_OnePacketAtATime ==
    /\ [](/\ loops <= 1
          /\ loops = 1 <=> phase = "listening"
          /\ (task.pc = "read" /\ pkt.handled /\ now = pkt.at)
                => /\ calls = WholeHandling
                   /\ Len(sent) = Len(calls)
                   /\ ~pkt.msg.Response =>
                         /\ pkt.srcIface \in DOMAIN recentQueries
                         /\ recentQueries[pkt.srcIface] = pkt.at)
    /\ [][ rx'.seq # rx.seq
           => /\ task.pc = "read"
              /\ task.k > Len(task.cands)
              /\ ~task.mu ]_vars

(* two packets handled one after the other, the second one forwarded twice *)
C21_Witness ==
    /\ loops = 1
    /\ task.pc = "read"
    /\ rx.prev = "handled"
    /\ rx.kind = "handled"
    /\ pkt.handled
    /\ pkt.data = rx.d.data
    /\ Len(task.cands) >= 2
    /\ Len(calls) >= 2

(***************************************************************************)
(* C22: every read and every write of the discovery-window map is made     *)
(* with the mutex held, and the mutex is held for one read or one write    *)
(* only: it is never held while a forward is made and it is free when      *)
(* handlePacket returns.                                                   *)
(***************************************************************************)
C22_MutexAroundOneAccess ==
    /\ [](/\ task.pc \in {"record.write", "win.read"} => task.mu
          /\ task.mu => task.pc \in {"record.write", "record.unlock",
                                     "win.read", "win.unlock"}
          /\ task.pc \in {"forward", "read"} => ~task.mu)
    /\ [][ /\ recentQueries' # recentQueries => (task.mu /\ task'.mu)
           /\ (task.pc = "win.read" /\ task' # task) => (task.mu /\ task'.mu)
           /\ calls' # calls => (~task.mu /\ ~task'.mu)
           /\ (task.mu /\ task'.mu /\ task' # task)
                 => task'.pc \in {"record.unlock", "win.unlock"} ]_vars

(* a response about to be forwarded into "users": the entry of the         *)
(* destination was read under the mutex, and the mutex is free again       *)
C22_Witness ==
    /\ task.pc = "forward"
    /\ task.isResp
    /\ task.cands[task.k].destGroup = "users"
    /\ task.ok
    /\ now - task.lastQuery <= WindowSecs
    /\ ~task.mu
    /\ calls # <<>>

(* the last packet, taken as a response, passes the from, type and IP     *)
(* gates of rule r                                                         *)
RespPasses(r) ==
    /\ Rules[r].From = SrcGroup
    /\ (Len(Rules[r].Types) > 0 => InList(Rules[r].Types, "response"))
    /\ (Len(Rules[r].AllowedIPs) > 0 => InList(Rules[r].AllowedIPs, pkt.srcIP))

(* rule r forwarded the last packet to interface n as one of "users" *)
UsersCall(r, n) ==
    \E i \in CallsUnder(r) : calls[i].ifaceName = n /\ calls[i].destGroup = "users"

(* rule r forwarded the last packet to interface n *)
CallUnderTo(r, n) == \E i \in CallsUnder(r) : calls[i].ifaceName = n

(* the "users" interfaces rule r could send the last packet to *)
UsersDestinations(r) ==
    IF InList(Rules[r].To, "users")
    THEN { n \in IfaceNames : ifaceMap(n) = "users" /\ n # pkt.srcIface }
    ELSE {}

(* the last packet passes the four gates of rule r as the code applies     *)
(* them                                                                    *)
CodeGates(r) ==
    /\ FromGate(Rules[r], SrcGroup)
    /\ TypeGate(Rules[r], pkt.msg)
    /\ IPGate(Rules[r], pkt.srcIP)
    /\ ServiceGate(Rules[r], pkt.msg)

(* the interfaces rule r, taken alone, admits for the last packet *)
RuleAdmits(r) ==
    IF CodeGates(r)
    THEN { n \in RuleDestinations(r) :
             \E k \in DOMAIN Rules[r].To :
                 /\ ifaceMap(n) = Rules[r].To[k]
                 /\ (isResponse(pkt.msg) /\ Rules[r].To[k] = "users")
                       => OpenAtTest(r, n) }
    ELSE {}

(***************************************************************************)
(* C23: the discovery window is inclusive at its boundary: a response      *)
(* that comes to a destination exactly 60 seconds after the destination's  *)
(* last recorded query is relayed to it, one that comes to it later than   *)
(* that is not.                                                            *)
(***************************************************************************)
C23_WindowInclusiveAtBoundary ==
    ResponseDone =>
        \A r \in DOMAIN Rules : RespPasses(r) =>
            \A n \in UsersDestinations(r) :
                /\ Tested(r, n)
                /\ n \in DOMAIN recentQueries =>
                      ( UsersCall(r, n)
                        <=> \E i \in TestsOf(r, n) :
                                pkt.tests[i].at - recentQueries[n] <= WindowSecs )

(* a response relayed into "users" in the last second of the window, the  *)
(* clock having moved since handlePacket was entered                       *)
C23_Witness ==
    /\ ResponseDone
    /\ SrcGroup = "gl_iot"
    /\ \E r \in DOMAIN Rules : \E n \in UsersDestinations(r) :
          /\ UsersCall(r, n)
          /\ \E i \in TestsOf(r, n) :
                /\ pkt.tests[i].at - recentQueries[n] = WindowSecs
                /\ pkt.at < pkt.tests[i].at

(***************************************************************************)
(* C24: the discovery window is required only when the message is a        *)
(* response and the destination group is "users": every other forward a   *)
(* rule's gates let through is made whatever the window map holds.         *)
(***************************************************************************)
C24_WindowOnlyForResponsesIntoUsers ==
    Done =>
        \A r \in DOMAIN Rules : CodeGates(r) =>
            \A n \in RuleDestinations(r) :
                \/ pkt.msg.Response /\ ifaceMap(n) = "users"
                \/ CallUnderTo(r, n)

(***************************************************************************)
(* C25: the discovery window is kept per interface: a response goes to a   *)
(* "users" interface with a query of its own in the last 60 seconds, and   *)
(* not to a "users" interface without one, whatever the other interfaces   *)
(* of the group have recorded.                                             *)
(***************************************************************************)
C25_WindowPerInterface ==
    IsResponseMsg =>
        /\ \A n \in IfaceNames :
              ( /\ ifaceMap(n) = "users"
                /\ \/ n \notin DOMAIN recentQueries
                   \/ pkt.at - recentQueries[n] > WindowSecs )
              => CallsTo(n) = {}
        /\ Done =>
              \A r \in DOMAIN Rules : RespPasses(r) =>
                  \A n \in UsersDestinations(r) : OpenAtTest(r, n) => UsersCall(r, n)

(* both "users" interfaces have asked, one of them too long ago: the       *)
(* response goes to the other one alone                                    *)
C25_Witness ==
    /\ ResponseDone
    /\ "vlan.10" \in DOMAIN recentQueries
    /\ "vlan.11" \in DOMAIN recentQueries
    /\ pkt.at - recentQueries["vlan.10"] <= WindowSecs
    /\ pkt.at - recentQueries["vlan.11"] > WindowSecs
    /\ CallsTo("vlan.10") # {}
    /\ CallsTo("vlan.11") = {}

(***************************************************************************)
(* C26: rule evaluation does not short-circuit: every rule is evaluated in *)
(* configuration order, a rule that rejects the packet does not keep a     *)
(* later rule from relaying it, and the interfaces a packet is forwarded   *)
(* to are the union of the interfaces each rule admits.                    *)
(***************************************************************************)
C26_NoShortCircuit ==
    Done =>
        /\ \A r \in DOMAIN Rules :
              { calls[i].ifaceName : i \in CallsUnder(r) } = RuleAdmits(r)
        /\ { calls[i].ifaceName : i \in DOMAIN calls }
              = UNION { RuleAdmits(r) : r \in DOMAIN Rules }
        /\ \A i, j \in DOMAIN calls : i < j => calls[i].rule <= calls[j].rule

(* a query that the first rule of its group rejects and a later rule      *)
(* relays                                                                  *)
C26_Witness ==
    /\ QueryDone
    /\ SrcGroup = "gl_iot"
    /\ Rules[3].From = SrcGroup
    /\ CallsUnder(3) = {}
    /\ CallsUnder(5) # {}

(***************************************************************************)
(* C27: the service gate is evaluated for queries only: a response passes  *)
(* a rule with a service allow-list whatever names it carries.             *)
(***************************************************************************)
C27_ServiceGateOnlyForQueries ==
    ResponseDone =>
        \A r \in DOMAIN Rules :
            (RespPasses(r) /\ Len(Rules[r].AllowedServices) > 0) =>
                \A n \in RuleDestinations(r) :
                    ifaceMap(n) = "users" \/ CallUnderTo(r, n)

(* a response about a service the rule does not list, relayed by that rule *)
C27_Witness ==
    /\ ResponseDone
    /\ pkt.msg.Question # <<>>
    /\ \E r \in DOMAIN Rules :
          /\ Len(Rules[r].AllowedServices) > 0
          /\ \A k \in DOMAIN pkt.msg.Question :
                /\ ~NamesService(r, pkt.msg.Question[k].Name)
                /\ ~PlainHostname(pkt.msg.Question[k].Name)
                /\ ~ReverseLookup(pkt.msg.Question[k].Name)
          /\ \A k \in DOMAIN pkt.msg.Answer : ~NamesService(r, pkt.msg.Answer[k])
          /\ CallsUnder(r) # {}

(***************************************************************************)
(* C28: bytes are rewritten only for queries that had a QU bit set: for    *)
(* every response, and for every query without a QU bit, each forward      *)
(* carries exactly the bytes received.                                     *)
(***************************************************************************)
C28_OnlyQUQueriesRewritten ==
    (pkt.handled /\ (pkt.msg.Response \/ ~HasQUQuestion)) =>
        \A i \in DOMAIN calls : calls[i].data = pkt.data

(* a relayed response in which the top bit of a question's class is set *)
C28_Witness ==
    /\ ResponseDone
    /\ HasQUQuestion
    /\ calls # <<>>
    /\ pkt.data # NilData

(***************************************************************************)
(* C29: the discovery-window map changes only by recording a query for the *)
(* packet's source interface: responses, rule evaluation, forwarding and   *)
(* the passage of time leave every entry as it is, and an entry is never   *)
(* removed.                                                                *)
(***************************************************************************)
C29_MapChangesOnlyByRecording ==
    [][ /\ DOMAIN recentQueries \subseteq DOMAIN recentQueries'
        /\ recentQueries' # recentQueries =>
              /\ now' = now
              /\ pkt'.handled
              /\ ~pkt'.msg.Response
              /\ DOMAIN recentQueries' = DOMAIN recentQueries \cup {pkt'.srcIface}
              /\ recentQueries'[pkt'.srcIface] = now
              /\ \A n \in DOMAIN recentQueries :
                    n # pkt'.srcIface => recentQueries'[n] = recentQueries[n] ]_vars

(* an expired entry that is still in the map after a later query of        *)
(* another interface and a response                                        *)
C29_Witness ==
    /\ ResponseDone
    /\ \E n, m \in DOMAIN recentQueries :
          /\ recentQueries[m] - recentQueries[n] > WindowSecs
          /\ pkt.at - recentQueries[n] > WindowSecs

(***************************************************************************)
(* C30: empty allow-lists allow everything: a rule with no types, no       *)
(* addresses and no services admits every query and every response of its  *)
(* source group to all interfaces of its destination groups other than the *)
(* source, a response into "users" needing the open window.                *)
(***************************************************************************)
C30_EmptyListsAllowAll ==
    Done =>
        \A r \in DOMAIN Rules :
            ( /\ Rules[r].From = SrcGroup
              /\ Rules[r].Types = <<>>
              /\ Rules[r].AllowedIPs = <<>>
              /\ Rules[r].AllowedServices = <<>> )
            => \A n \in RuleDestinations(r) :
                  \/ /\ pkt.msg.Response
                     /\ ifaceMap(n) = "users"
                     /\ ~OpenAtTest(r, n)
                  \/ CallUnderTo(r, n)

(***************************************************************************)
(* C31: every key of the discovery-window map is the name of an interface  *)
(* of the topology table: no entry is ever created for an interface name   *)
(* that is not configured.                                                 *)
(***************************************************************************)
C31_KeysAreConfiguredInterfaces ==
    DOMAIN recentQueries \subseteq IfaceNames
====
